---- MODULE Spec2Model ----
(***************************************************************************)
(* A model of AudioClipFactory (src/audioclip_factory/audio_clip_factory.py).*)
(*                                                                         *)
(* An audio clip is abstracted to what the factory's control flow reads    *)
(* and writes: its duration (in hundredths of a second) and its peak       *)
(* amplitude, the value of clip.max_volume().  Amplitudes and volume       *)
(* factors are exact rationals <<numerator, denominator>> in lowest terms. *)
(* One behaviour of the model is one call of a public entry point:         *)
(* apply_audio_effects, merge_audio_clips or merge_speech_with_music.      *)
(***************************************************************************)
EXTENDS Integers, Sequences, FiniteSets, TLC

(***************************************************************************)
(* Bounds of the model.                                                    *)
(***************************************************************************)
MaxActions == 3
MaxPeakSteps == 12
MaxDurSteps == 1
MaxClips == 2
MaxIter == 3

(***************************************************************************)
(* Exact rational arithmetic.                                              *)
(***************************************************************************)
RECURSIVE GCD(_, _)
GCD(a, b) == IF b = 0 THEN a ELSE GCD(b, a % b)

Rat(n, d) == LET g == GCD(n, d) IN <<n \div g, d \div g>>

Zero == Rat(0, 1)
One == Rat(1, 1)

RMul(a, b) == Rat(a[1] * b[1], a[2] * b[2])
RDiv(a, b) == Rat(a[1] * b[2], a[2] * b[1])
RAdd(a, b) == Rat(a[1] * b[2] + b[1] * a[2], a[2] * b[2])
RSub(a, b) == Rat(a[1] * b[2] - b[1] * a[2], a[2] * b[2])
RLt(a, b) == a[1] * b[2] < b[1] * a[2]
RLe(a, b) == a[1] * b[2] <= b[1] * a[2]

(***************************************************************************)
(* Values: the Python None, decoded clips, composite clips.                *)
(***************************************************************************)
None == [kind |-> "None"]
Clip(d, p) == [kind |-> "clip", duration |-> d, peak |-> p]
IsNone(c) == c.kind = "None"

Peaks == {Rat(5 * k, 100) : k \in 0..MaxPeakSteps}
Durations == {1200, 4000} \cup {500 * k : k \in 1..MaxDurSteps}
Clips == {Clip(d, p) : d \in Durations, p \in Peaks}

(* The peaks a part of a clip can have: no louder than the whole clip. *)
PeaksWithin(p) == {p} \cup {q \in Peaks : RLt(q, p)}

(***************************************************************************)
(* Action descriptors handed to apply_audio_effects.                       *)
(***************************************************************************)
Action(t, p) == [type |-> t, param |-> p]
KnownTypes == {"normalize_music", "loop_background_music", "volume_percentage"}
VolumeParams == {Rat(1, 2), Rat(3, 2)}
ActionChoices ==
    {Action("normalize_music", 0), Action("fade_out", 0)}
        \cup {Action("loop_background_music", d) : d \in {1200}}
        \cup {Action("volume_percentage", f) : f \in VolumeParams}
ActionLists == UNION {[1..n -> ActionChoices] : n \in 0..MaxActions}

(***************************************************************************)
(* The thresholds of loop_background_music.                                *)
(***************************************************************************)
max_volume_threshold == Rat(3, 10)
min_volume_threshold == Rat(1, 10)
smoothing_factor == Rat(1, 10)

(* The loop condition without its lower threshold. *)
while_condition_upper_only(detected_volume) ==
    RLt(max_volume_threshold, detected_volume)

(* The condition of the while loop. *)
while_condition(detected_volume) ==
    RLt(max_volume_threshold, detected_volume)
        \/ RLt(detected_volume, min_volume_threshold)

(* The downward correction overshooting instead of undershooting. *)
reduce_factor_oversmoothed(volume_factor, detected_volume) ==
    RMul(volume_factor,
         RMul(RDiv(max_volume_threshold, detected_volume), RAdd(One, smoothing_factor)))

(* volume_factor *= max_volume_threshold / detected_volume * (1 - smoothing_factor) *)
reduce_factor(volume_factor, detected_volume) ==
    RMul(volume_factor,
         RMul(RDiv(max_volume_threshold, detected_volume), RSub(One, smoothing_factor)))

(* The upward correction without the smoothing term. *)
increase_factor_unsmoothed(volume_factor, detected_volume) ==
    RMul(volume_factor, RDiv(min_volume_threshold, detected_volume))

(* volume_factor *= min_volume_threshold / detected_volume * (1 + smoothing_factor) *)
increase_factor(volume_factor, detected_volume) ==
    RMul(volume_factor,
         RMul(RDiv(min_volume_threshold, detected_volume), RAdd(One, smoothing_factor)))

(* The trim keeping the lead-in and dropping the rest. *)
subclip_start_tail(duration) == (duration * 85) \div 100

(* start = clip.duration * 0.15; exact, every duration is a multiple of 20 *)
subclip_start(duration) == (duration * 15) \div 100

(* afx.AudioNormalize: the peak becomes 1, a silent clip is left as it is *)
normalize_music(c) == IF c.peak = Zero THEN c ELSE [c EXCEPT !.peak = One]

(* afx.MultiplyVolume(factor): every sample is multiplied by factor *)
adjust_volume(c, factor) == [c EXCEPT !.peak = RMul(c.peak, factor)]

(* CompositeAudioClip(audio_clips): every clip starts at 0, the composite *)
(* ends with the last of them                                             *)
RECURSIVE MaxDuration(_)
MaxDuration(cs) ==
    IF Len(cs) = 0 THEN 0
    ELSE LET m == MaxDuration(Tail(cs))
         IN IF Head(cs).duration > m THEN Head(cs).duration ELSE m

CompositeAudioClip(cs) ==
    [kind |-> "composite", parts |-> cs, start |-> 0, duration |-> MaxDuration(cs)]

(* A merge that refuses a single clip. *)
merge_audio_clips_needs_two(audio_clips) ==
    IF Len(audio_clips) <= 1 THEN None ELSE CompositeAudioClip(audio_clips)

merge_audio_clips(audio_clips) ==
    IF Len(audio_clips) = 0 THEN None ELSE CompositeAudioClip(audio_clips)

(***************************************************************************)
(* State.                                                                  *)
(***************************************************************************)
VARIABLES
    pc,           \* position of the call in progress
    entry,        \* the entry point that was called
    env,          \* the inputs of the call and what the outside world does
    track,        \* "direct", or the asset create_audio_clip is building
    clip,         \* the local `clip` of apply_audio_effects
    actions,      \* the action list being applied
    i,            \* index of the next action
    applied,      \* the types of the actions that changed the clip, in order
    loop,         \* locals and history of loop_background_music
    ret,          \* value returned by create_audio_clip
    speech_clip,
    music_clip,
    merge_input,  \* argument of merge_audio_clips in merge_speech_with_music
    merged_clip,
    files,        \* temporary files that exist
    saved,        \* save_audio_clip was invoked
    result,       \* value returned by the entry point
    exc           \* exception that left the entry point, or "none"

vars == <<pc, entry, env, track, clip, actions, i, applied, loop, ret,
          speech_clip, music_clip, merge_input, merged_clip, files, saved,
          result, exc>>

NoLoop ==
    [status |-> "none", target |-> 0, source_duration |-> 0, start |-> 0,
     orig |-> None, volume_factor |-> One, detected_volume |-> Zero,
     iterations |-> 0, divisors |-> <<>>, scaled |-> <<>>, result |-> None,
     exception |-> "none"]

Init ==
    /\ pc = "idle"
    /\ entry = "none"
    /\ env = [called |-> FALSE]
    /\ track = "direct"
    /\ clip = None
    /\ actions = <<>>
    /\ i = 1
    /\ applied = <<>>
    /\ loop = NoLoop
    /\ ret = None
    /\ speech_clip = None
    /\ music_clip = None
    /\ merge_input = <<>>
    /\ merged_clip = None
    /\ files = {}
    /\ saved = FALSE
    /\ result = None
    /\ exc = "none"

(***************************************************************************)
(* apply_audio_effects(clip, actions), called directly.                    *)
(***************************************************************************)
CallApplyAudioEffects ==
    /\ pc = "idle"
    /\ \E c \in Clips, as \in ActionLists :
          /\ clip' = c
          /\ actions' = as
          /\ env' = [called |-> TRUE, clip |-> c, actions |-> as]
    /\ entry' = "apply_audio_effects"
    /\ track' = "direct"
    /\ i' = 1
    /\ pc' = "effects"
    /\ UNCHANGED <<applied, loop, ret, speech_clip, music_clip, merge_input,
                   merged_clip, files, saved, result, exc>>

(* An exception raised inside apply_audio_effects: create_audio_clip       *)
(* catches it and returns None; a direct caller receives it.               *)
RaiseInEffects(e) ==
    IF track = "direct"
    THEN /\ pc' = "done"
         /\ exc' = e
         /\ ret' = ret
    ELSE /\ pc' = "create_return"
         /\ ret' = None
         /\ exc' = exc

ApplyNormalize ==
    /\ pc = "effects"
    /\ i <= Len(actions)
    /\ actions[i].type = "normalize_music"
    /\ clip' = normalize_music(clip)
    /\ applied' = Append(applied, actions[i].type)
    /\ i' = i + 1
    /\ UNCHANGED <<pc, entry, env, track, actions, loop, ret, speech_clip,
                   music_clip, merge_input, merged_clip, files, saved, result, exc>>

ApplyVolume ==
    /\ pc = "effects"
    /\ i <= Len(actions)
    /\ actions[i].type = "volume_percentage"
    /\ clip' = adjust_volume(clip, actions[i].param)
    /\ applied' = Append(applied, actions[i].type)
    /\ i' = i + 1
    /\ UNCHANGED <<pc, entry, env, track, actions, loop, ret, speech_clip,
                   music_clip, merge_input, merged_clip, files, saved, result, exc>>

SkipUnknown ==
    /\ pc = "effects"
    /\ i <= Len(actions)
    /\ actions[i].type \notin KnownTypes
    /\ i' = i + 1
    /\ UNCHANGED <<pc, entry, env, track, clip, actions, applied, loop, ret,
                   speech_clip, music_clip, merge_input, merged_clip, files,
                   saved, result, exc>>

(* loop_background_music up to the first evaluation of the while condition: *)
(* trim the lead-in, loop to the target, measure the peak.                  *)
BeginLoop ==
    /\ pc = "effects"
    /\ i <= Len(actions)
    /\ actions[i].type = "loop_background_music"
    /\ \E p \in PeaksWithin(clip.peak) :
          LET looped == Clip(actions[i].param, p)
          IN /\ clip' = looped
             /\ loop' = [NoLoop EXCEPT
                           !.status = "running",
                           !.target = actions[i].param,
                           !.source_duration = clip.duration,
                           !.start = subclip_start(clip.duration),
                           !.orig = looped,
                           !.detected_volume = looped.peak]
    /\ pc' = "while"
    /\ UNCHANGED <<entry, env, track, actions, i, applied, ret, speech_clip,
                   music_clip, merge_input, merged_clip, files, saved, result, exc>>

(* One pass through the body of the while loop. *)
WhileIterate ==
    /\ pc = "while"
    /\ while_condition(loop.detected_volume)
    /\ loop.iterations < MaxIter
    /\ LET d == loop.detected_volume
           divided == [loop EXCEPT !.divisors = Append(@, d)]
       IN IF d = Zero
          THEN /\ loop' = [divided EXCEPT !.status = "raised",
                                          !.exception = "ZeroDivisionError"]
               /\ RaiseInEffects("ZeroDivisionError")
               /\ UNCHANGED clip
          ELSE LET vf == IF RLt(max_volume_threshold, d)
                         THEN reduce_factor(loop.volume_factor, d)
                         ELSE increase_factor(loop.volume_factor, d)
                   scaled == adjust_volume(clip, vf)
               IN /\ clip' = scaled
                  /\ loop' = [divided EXCEPT
                                !.volume_factor = vf,
                                !.scaled = Append(@, clip),
                                !.detected_volume = scaled.peak,
                                !.iterations = @ + 1]
                  /\ UNCHANGED <<pc, ret, exc>>
    /\ UNCHANGED <<entry, env, track, actions, i, applied, speech_clip,
                   music_clip, merge_input, merged_clip, files, saved, result>>

(* The while condition is false: loop_background_music returns the clip. *)
WhileExit ==
    /\ pc = "while"
    /\ ~while_condition(loop.detected_volume)
    /\ loop' = [loop EXCEPT !.status = "returned", !.result = clip]
    /\ applied' = Append(applied, actions[i].type)
    /\ i' = i + 1
    /\ pc' = "effects"
    /\ UNCHANGED <<entry, env, track, clip, actions, ret, speech_clip,
                   music_clip, merge_input, merged_clip, files, saved, result, exc>>

(* The for loop is over: apply_audio_effects returns the clip. *)
EffectsReturn ==
    /\ pc = "effects"
    /\ i > Len(actions)
    /\ IF track = "direct"
       THEN /\ result' = clip
            /\ pc' = "done"
            /\ ret' = ret
       ELSE /\ ret' = clip
            /\ pc' = "create_return"
            /\ result' = result
    /\ UNCHANGED <<entry, env, track, clip, actions, i, applied, loop,
                   speech_clip, music_clip, merge_input, merged_clip, files,
                   saved, exc>>

(***************************************************************************)
(* merge_audio_clips(audio_clips), called directly.                        *)
(***************************************************************************)
ClipLists == UNION {[1..n -> Clips] : n \in 0..MaxClips}

CallMergeAudioClips ==
    /\ pc = "idle"
    /\ \E cs \in ClipLists :
          /\ env' = [called |-> TRUE, audio_clips |-> cs]
          /\ result' = merge_audio_clips(cs)
    /\ entry' = "merge_audio_clips"
    /\ pc' = "done"
    /\ UNCHANGED <<track, clip, actions, i, applied, loop, ret, speech_clip,
                   music_clip, merge_input, merged_clip, files, saved, exc>>

(***************************************************************************)
(* merge_speech_with_music(speech_path, music_path, speech_volume,         *)
(* music_volume).  The outside world decides whether a path ends in .mp3,  *)
(* whether pydub, the decoder and the encoder succeed, and what the two    *)
(* files hold.                                                             *)
(***************************************************************************)
SourceClips == {c \in Clips : c.peak \in {Zero, Rat(3, 5)}}
SpeechVolumes == {One, Rat(3, 2)}
MusicVolumes == {Rat(1, 2)}

TempSpeech == "temp_speech.mp3"
OutputFile == "output.mp3"

CallMergeSpeechWithMusic ==
    /\ pc = "idle"
    /\ \E mp3 \in BOOLEAN, cok \in BOOLEAN, sok \in BOOLEAN, mok \in BOOLEAN,
          xok \in BOOLEAN, s \in SourceClips, m \in SourceClips,
          sv \in SpeechVolumes, mv \in MusicVolumes :
          env' = [called |-> TRUE, speech_is_mp3 |-> mp3, convert_ok |-> cok,
                  speech_ok |-> sok, music_ok |-> mok, export_ok |-> xok,
                  speech_src |-> s, music_src |-> m,
                  speech_volume |-> sv, music_volume |-> mv]
    /\ entry' = "merge_speech_with_music"
    /\ pc' = "convert"
    /\ UNCHANGED <<track, clip, actions, i, applied, loop, ret, speech_clip,
                   music_clip, merge_input, merged_clip, files, saved, result, exc>>

speech_actions ==
    <<Action("normalize_music", 0),
      Action("volume_percentage", env.speech_volume)>>

music_actions(target_duration) ==
    <<Action("normalize_music", 0),
      Action("loop_background_music", target_duration),
      Action("volume_percentage", env.music_volume)>>

(* The speech path already ends in .mp3: nothing is converted. *)
ConvertSkip ==
    /\ pc = "convert"
    /\ env.speech_is_mp3
    /\ track' = "speech"
    /\ actions' = speech_actions
    /\ pc' = "create"
    /\ UNCHANGED <<entry, env, clip, i, applied, loop, ret, speech_clip,
                   music_clip, merge_input, merged_clip, files, saved, result, exc>>

(* A temporary .mp3 is created and pydub converts the speech into it. *)
ConvertOk ==
    /\ pc = "convert"
    /\ ~env.speech_is_mp3
    /\ env.convert_ok
    /\ files' = files \cup {TempSpeech}
    /\ track' = "speech"
    /\ actions' = speech_actions
    /\ pc' = "create"
    /\ UNCHANGED <<entry, env, clip, i, applied, loop, ret, speech_clip,
                   music_clip, merge_input, merged_clip, saved, result, exc>>

(* pydub cannot read or export the speech: nothing catches its exception. *)
ConvertFail ==
    /\ pc = "convert"
    /\ ~env.speech_is_mp3
    /\ ~env.convert_ok
    /\ files' = files \cup {TempSpeech}
    /\ exc' = "CouldntDecodeError"
    /\ pc' = "done"
    /\ UNCHANGED <<entry, env, track, clip, actions, i, applied, loop, ret,
                   speech_clip, music_clip, merge_input, merged_clip, saved, result>>

(* create_audio_clip: AudioFileClip(url) inside the try block. *)
CreateAudioClip ==
    /\ pc = "create"
    /\ LET ok == IF track = "speech" THEN env.speech_ok ELSE env.music_ok
           src == IF track = "speech" THEN env.speech_src ELSE env.music_src
       IN IF ok
          THEN /\ clip' = src
               /\ i' = 1
               /\ applied' = <<>>
               /\ pc' = "effects"
               /\ ret' = ret
          ELSE /\ ret' = None
               /\ pc' = "create_return"
               /\ UNCHANGED <<clip, i, applied>>
    /\ UNCHANGED <<entry, env, track, actions, loop, speech_clip, music_clip,
                   merge_input, merged_clip, files, saved, result, exc>>

(* create_audio_clip(speech_asset) has returned. *)
SpeechReturn ==
    /\ pc = "create_return"
    /\ track = "speech"
    /\ speech_clip' = ret
    /\ IF IsNone(ret)
       THEN /\ result' = None
            /\ pc' = "done"
            /\ UNCHANGED <<track, actions>>
       ELSE /\ track' = "music"
            /\ actions' = music_actions(ret.duration)
            /\ pc' = "create"
            /\ result' = result
    /\ UNCHANGED <<entry, env, clip, i, applied, loop, ret, music_clip,
                   merge_input, merged_clip, files, saved, exc>>

(* create_audio_clip(music_asset) has returned: merge, then open the output. *)
MusicReturn ==
    /\ pc = "create_return"
    /\ track = "music"
    /\ music_clip' = ret
    /\ IF IsNone(ret)
       THEN /\ merged_clip' = None
            /\ merge_input' = merge_input
       ELSE /\ merge_input' = <<ret, speech_clip>>
            /\ merged_clip' = merge_audio_clips(<<ret, speech_clip>>)
    /\ IF IsNone(merged_clip')
       THEN /\ result' = None
            /\ pc' = "done"
            /\ files' = files
       ELSE /\ files' = files \cup {OutputFile}
            /\ pc' = "save"
            /\ result' = result
    /\ UNCHANGED <<entry, env, track, clip, actions, i, applied, loop, ret,
                   speech_clip, saved, exc>>

(* save_audio_clip(merged_clip, output_path), then AudioFileClip(output_path). *)
SaveAudioClip ==
    /\ pc = "save"
    /\ saved' = TRUE
    /\ pc' = "done"
    /\ IF env.export_ok
       THEN /\ result' = [kind |-> "file", path |-> OutputFile, fps |-> 44100,
                          duration |-> merged_clip.duration]
            /\ exc' = exc
       ELSE /\ exc' = "ExportError"
            /\ result' = result
    /\ UNCHANGED <<entry, env, track, clip, actions, i, applied, loop, ret,
                   speech_clip, music_clip, merge_input, merged_clip, files>>

Next ==
    \/ CallApplyAudioEffects
    \/ CallMergeAudioClips
    \/ CallMergeSpeechWithMusic
    \/ ConvertSkip
    \/ ConvertOk
    \/ ConvertFail
    \/ CreateAudioClip
    \/ ApplyNormalize
    \/ ApplyVolume
    \/ SkipUnknown
    \/ BeginLoop
    \/ WhileIterate
    \/ WhileExit
    \/ EffectsReturn
    \/ SpeechReturn
    \/ MusicReturn
    \/ SaveAudioClip

Spec == Init /\ [][Next]_vars

(***************************************************************************)
(* Properties.                                                             *)
(***************************************************************************)
LoopStopped == loop.status \in {"returned", "raised"}
InBand(p) == RLe(min_volume_threshold, p) /\ RLe(p, max_volume_threshold)
Composing == entry = "merge_speech_with_music"

(* The model's iteration guard never stops a loop that would go on. *)
IterationGuardIdle ==
    (pc = "while" /\ while_condition(loop.detected_volume)) => loop.iterations < MaxIter

\* C1: for a looped buffer with peak > 0 the convergence step either returns
\* a buffer whose peak lies in [0.10, 0.30] or fails with ConvergenceFailure;
\* it never returns an out-of-band buffer.
ConvergenceInvariant ==
    (LoopStopped /\ RLt(Zero, loop.orig.peak)) =>
        \/ loop.status = "returned" /\ InBand(loop.result.peak)
        \/ loop.status = "raised" /\ loop.exception = "ConvergenceFailure"

ConvergenceWitness ==
    /\ loop.status = "returned"
    /\ RLt(Zero, loop.orig.peak)
    /\ ~InBand(loop.orig.peak)
    /\ InBand(loop.result.peak)

\* C2: the convergence loop always stops in one of two ways: with the peak
\* inside the band, or with ConvergenceFailure once the iteration cap is
\* exhausted.
LoopStopsInBandOrFails ==
    LoopStopped =>
        \/ loop.status = "returned" /\ InBand(loop.detected_volume)
        \/ loop.exception = "ConvergenceFailure"

\* C3: a looped buffer whose peak is exactly 0 is returned unchanged, with
\* zero loop iterations and without any division by the detected peak.
SilenceSafety ==
    (loop.status # "none" /\ loop.orig.peak = Zero) =>
        /\ loop.divisors = <<>>
        /\ loop.iterations = 0
        /\ loop.status # "raised"
        /\ loop.status = "returned" => loop.result = loop.orig

\* C4: when the speech conversion, the speech decode, an effect pipeline or
\* the music decode fails, merge_speech_with_music returns None, never
\* invokes save_audio_clip, writes no output file and lets no exception out.
ComposeFailed ==
    \/ ~env.speech_is_mp3 /\ ~env.convert_ok
    \/ ~env.speech_ok
    \/ ~env.music_ok
    \/ loop.status = "raised"

ComposeFailsAtomically ==
    (Composing /\ pc = "done" /\ ComposeFailed) =>
        /\ IsNone(result)
        /\ ~saved
        /\ OutputFile \notin files
        /\ exc = "none"

\* C5: apply_audio_effects never raises, and when it returns, the actions
\* that acted on the buffer are exactly the recognized ones, in list order.
IsKnown(a) == a.type \in KnownTypes
TypesOf(as) == [k \in 1..Len(as) |-> as[k].type]

EffectsNeverRaise ==
    entry = "apply_audio_effects" =>
        /\ exc = "none"
        /\ pc = "done" => applied = TypesOf(SelectSeq(actions, IsKnown))

\* C6: merge_audio_clips returns None exactly for the empty list; otherwise
\* a composite of exactly the given clips, starting at 0, whose duration is
\* the largest input duration; a single clip A gives a composite of A alone
\* with A's duration.
MergeContract ==
    (entry = "merge_audio_clips" /\ pc = "done") =>
        LET cs == env.audio_clips
        IN /\ IsNone(result) <=> cs = <<>>
           /\ cs # <<>> =>
                /\ result.kind = "composite"
                /\ result.parts = cs
                /\ result.start = 0
                /\ \A k \in 1..Len(cs) : cs[k].duration <= result.duration
                /\ \E k \in 1..Len(cs) : cs[k].duration = result.duration
           /\ Len(cs) = 1 =>
                /\ result.parts = <<cs[1]>>
                /\ result.duration = cs[1].duration

MergeWitness ==
    /\ entry = "merge_audio_clips"
    /\ pc = "done"
    /\ Len(env.audio_clips) = 2
    /\ env.audio_clips[1].duration > env.audio_clips[2].duration
    /\ result.duration = env.audio_clips[1].duration

\* C7: in merge_speech_with_music the music is built only after the speech
\* clip exists; its loop target is the speech duration, the trim starts at
\* 0.15 x the music source duration, the looped music lasts exactly as long
\* as the speech, and merge_audio_clips receives [music, speech].
MusicLoopedToSpeech ==
    Composing =>
        /\ track = "music" => speech_clip.kind = "clip"
        /\ loop.status # "none" =>
             /\ track = "music"
             /\ loop.target = speech_clip.duration
             /\ loop.source_duration = env.music_src.duration
             /\ loop.start * 100 = 15 * env.music_src.duration
             /\ loop.orig.duration = speech_clip.duration
        /\ merge_input # <<>> =>
             /\ merge_input = <<music_clip, speech_clip>>
             /\ loop.status = "returned"
             /\ music_clip.duration = speech_clip.duration
             /\ speech_clip.duration = env.speech_src.duration

MusicLoopWitness ==
    /\ Composing
    /\ env.speech_src.duration = 1200
    /\ env.music_src.duration = 4000
    /\ loop.start = 600
    /\ loop.orig.duration = 1200
    /\ merge_input = <<music_clip, speech_clip>>

\* C8: when merge_speech_with_music exits, every temporary file it created
\* has been deleted: the converted speech always, and the output file unless
\* it backs the returned clip.
TempFilesDeleted ==
    (Composing /\ pc = "done") =>
        /\ TempSpeech \notin files
        /\ OutputFile \in files => result.kind = "file"

\* C9: an out-of-band positive peak converges in exactly one iteration:
\* above 0.30 the factor is (0.30/peak)*0.90 and the new peak 0.27 (0.60
\* gives 0.45); below 0.10 the factor is (0.10/peak)*1.10 and the new peak
\* 0.11 (0.05 gives 2.2); the buffer returned is the input scaled by that
\* one factor.
OneIterationConvergence ==
    LET p == loop.orig.peak
        high == RLt(max_volume_threshold, p)
        low == RLt(Zero, p) /\ RLt(p, min_volume_threshold)
    IN (loop.status # "none" /\ (high \/ low)) =>
          /\ loop.iterations <= 1
          /\ loop.status # "raised"
          /\ loop.status = "returned" =>
               /\ loop.iterations = 1
               /\ loop.result = adjust_volume(loop.orig, loop.volume_factor)
               /\ high => /\ loop.volume_factor =
                                RMul(RDiv(Rat(3, 10), p), Rat(9, 10))
                          /\ loop.result.peak = Rat(27, 100)
               /\ low => /\ loop.volume_factor =
                               RMul(RDiv(Rat(1, 10), p), Rat(11, 10))
                         /\ loop.result.peak = Rat(11, 100)
               /\ p = Rat(60, 100) => loop.volume_factor = Rat(45, 100)
               /\ p = Rat(5, 100) => loop.volume_factor = Rat(22, 10)

OneIterationWitness ==
    /\ loop.status = "returned"
    /\ loop.orig.peak = Rat(60, 100)
    /\ loop.iterations = 1
    /\ loop.volume_factor = Rat(45, 100)
    /\ loop.result.peak = Rat(27, 100)

\* C10: every iteration scales the original looped buffer, never an already
\* scaled one: the peak after iteration k is originalPeak x volume_factor,
\* volume_factor is the product of the correction ratios so far, and it is
\* strictly positive.
CorrectionRatio(d) ==
    IF RLt(max_volume_threshold, d)
    THEN RMul(RDiv(max_volume_threshold, d), Rat(9, 10))
    ELSE RMul(RDiv(min_volume_threshold, d), Rat(11, 10))

RECURSIVE ProductOfRatios(_)
ProductOfRatios(ds) ==
    IF ds = <<>> THEN One
    ELSE RMul(CorrectionRatio(Head(ds)), ProductOfRatios(Tail(ds)))

====
